---- MODULE Spec2Model ----
(***************************************************************************)
(* YouTubeAPIManager (src/src/youtube_api_manager.py): the three metadata  *)
(* operations get_channel_info, get_all_videos and get_video_details over  *)
(* a remote provider, with the bounded cursor pagination of                *)
(* get_all_videos as a loop of one action per iteration.                   *)
(*                                                                         *)
(* Python's None is the empty tuple and a present value x is <<x>>.        *)
(* A dict is a record; "error" in d is  "error" \in DOMAIN d.              *)
(***************************************************************************)
EXTENDS Integers, Sequences, FiniteSets, TLC

VARIABLES
    uploads,             \* provider: the items of the uploads playlist, in provider order
    serverPage,          \* provider: the most items it puts on one page
    pc,                  \* "idle" | "paging" | "returned" | "raised"
    op,                  \* the operation in progress or just ended
    args,                \* the arguments of that call (None when idle)
    uploads_playlist_id, \* get_all_videos local
    videos,              \* get_all_videos local: the collected list
    next_page_token,     \* get_all_videos local
    requests,            \* the requests this call has executed, with their responses
    apiCalls,            \* the transport's call counter, over all calls
    result               \* the value returned, or the exception raised

vars == <<uploads, serverPage, pc, op, args, uploads_playlist_id, videos,
          next_page_token, requests, apiCalls, result>>

----------------------------------------------------------------------------
(* Bounds of the model. *)

MaxSmall == 2      \* channel sizes and caps 0..MaxSmall are enumerated,
MaxOver == 1       \* and those from one short of a full page to MaxOver past it
MaxShort == 1      \* the provider may hold a page up to MaxShort items short
MaxApiCalls == 1   \* a call that reaches the transport starts while apiCalls < MaxApiCalls

PageCap == 50            \* min(50, ...) and the page size without a cap
DefaultMaxResults == 50  \* max_results: int = 50

----------------------------------------------------------------------------
(* Python values. *)

None == <<>>
Some(x) == <<x>>

\* the values Python takes for false: '', 0, False and the empty list, dict
\* and set, however they were built (an empty function prints as "<< >>")
Falsy(v) == ToString(v) \in {"\"\"", "0", "FALSE", "<<>>", "<< >>", "{}"}

\* truth value of an optional value: None is falsy too
Truthy(o) == o # None /\ ~Falsy(o[1])

Min(a, b) == IF a <= b THEN a ELSE b

Take(s, n) == SubSeq(s, 1, Min(n, Len(s)))

Map(s, F(_)) == [i \in 1..Len(s) |-> F(s[i])]

----------------------------------------------------------------------------
(* The provider.  One channel "UC1" of user "user1"; its uploads playlist  *)
(* "UU1" holds `uploads`.  Video i has videoId i.                          *)

KnownChannel == "UC1"
KnownUser == "user1"
UploadsPlaylist == "UU1"

\* a publishedAt string "YYYY-MM-DDThh:mm:ssZ", kept as its date and its second of the day
Stamp(t) == [day |-> t \div 2, sec |-> IF t % 2 = 0 THEN 0 ELSE 86399]

PlaylistItem(i, t) == [videoId |-> i, publishedAt |-> Stamp(t)]

\* the uploads playlist of a channel of k videos; newest first, or with dates interleaved
UploadsOf(k, order) ==
    [i \in 1..k |->
        PlaylistItem(i, IF order = "newest_first" THEN 3 - (((i - 1) * 4) \div k)
                        ELSE (i - 1) % 4)]

\* channels().list(id=...) / channels().list(forUsername=...): the matching items
ChannelsList(by, key) ==
    IF (by = "id" /\ key = Some(KnownChannel)) \/ (by = "forUsername" /\ key = Some(KnownUser))
    THEN << [id |-> KnownChannel, uploads |-> UploadsPlaylist] >>
    ELSE << >>

\* playlistItems().list(playlistId, maxResults, pageToken): a page and its cursor.
\* The cursor is present only while items remain after the page.
PlaylistItemsList(items, limit, playlistId, maxResults, pageToken) ==
    LET all == IF playlistId = UploadsPlaylist THEN items ELSE << >>
        start == IF pageToken = None THEN 0 ELSE pageToken[1]
        n == Min(Min(maxResults, limit), Len(all) - start)
    IN [items |-> SubSeq(all, start + 1, start + n),
        nextPageToken |-> IF start + n < Len(all) THEN Some(start + n) ELSE None]

\* videos().list(id=...): the matching items
VideosList(items, video_id) ==
    IF video_id \in 1..Len(items) THEN << items[video_id] >> ELSE << >>

\* what the provider does with one request: it answers, or fails with an
\* HttpError whose body is {"error": {"message": ...}}, is not UTF-8, is not
\* JSON, is JSON without error.message ({}), or is JSON of another shape
\* ([] or {"error": "quota"})
Faults == {"ok", "structured", "not_utf8", "not_json", "no_message", "not_a_dict"}

----------------------------------------------------------------------------
(* The client. *)

ValueError == [exception |-> "ValueError"]
UnicodeDecodeError == [exception |-> "UnicodeDecodeError"]
JSONDecodeError == [exception |-> "JSONDecodeError"]
KeyError == [exception |-> "KeyError"]
TypeError == [exception |-> "TypeError"]
HttpError == [exception |-> "HttpError"]

Returned(v, sent) == [kind |-> "returned", value |-> v, sent |-> sent]
Raised(e, sent) == [kind |-> "raised", value |-> e, sent |-> sent]

\* one entry of the transport's log
Request(api, maxResults, pageToken, collected, outcome, cursor) ==
    [api |-> api, maxResults |-> maxResults, pageToken |-> pageToken,
     collected |-> collected, outcome |-> outcome, nextPageToken |-> cursor]

MissingIdentifierNever(channel_id, username) == FALSE

\* if not channel_id and not username
MissingIdentifier(channel_id, username) ==
    ~Truthy(channel_id) /\ ~Truthy(username)

CatchHttpErrorReraise(fault) == [kind |-> "raised", value |-> HttpError]

\* except HttpError as e: json.loads(e.content.decode('utf-8'))['error']['message']
CatchHttpError(fault) ==
    IF fault = "structured"
    THEN [kind |-> "returned", value |-> [error |-> <<"API Error: ", "quotaExceeded">>]]
    ELSE [kind |-> "raised",
          value |-> CASE fault = "not_utf8" -> UnicodeDecodeError
                      [] fault = "not_json" -> JSONDecodeError
                      [] fault = "no_message" -> KeyError
                      [] OTHER -> TypeError]

ChannelSummary(channel_data) ==
    [id |-> channel_data.id, uploads_playlist |-> channel_data.uploads]

get_channel_info(channel_id, username, fault) ==
    IF MissingIdentifier(channel_id, username) THEN Raised(ValueError, << >>)
    ELSE IF fault # "ok"
    THEN LET c == CatchHttpError(fault)
             sent == << Request("channels", 0, None, 0, fault, None) >>
         IN [kind |-> c.kind, value |-> c.value, sent |-> sent]
    ELSE LET items == IF Truthy(channel_id) THEN ChannelsList("id", channel_id)
                      ELSE ChannelsList("forUsername", username)
         IN IF items = << >>
            THEN Returned([error |-> <<"Channel not found">>],
                          << Request("channels", 0, None, 0, "not_found", None) >>)
            ELSE Returned(ChannelSummary(items[1]),
                          << Request("channels", 0, None, 0, "ok", None) >>)

\* datetime.strptime(s, '%Y-%m-%dT%H:%M:%SZ'), as seconds
strptime(s) == s.day * 86400 + s.sec

VideoUrl(id) == <<"https://www.youtube.com/watch?v=", id>>

VideoData(item) ==
    [id |-> item.videoId, publishedAt |-> item.publishedAt, url |-> VideoUrl(item.videoId)]

VideoDetail(video_data) ==
    [id |-> video_data.videoId, publishedAt |-> video_data.publishedAt,
     url |-> VideoUrl(video_data.videoId)]

get_video_details(items, video_id, fault) ==
    IF fault # "ok"
    THEN LET c == CatchHttpError(fault)
         IN [kind |-> c.kind, value |-> c.value,
             sent |-> << Request("videos", 0, None, 0, fault, None) >>]
    ELSE LET found == VideosList(items, video_id)
         IN IF found = << >>
            THEN Returned([error |-> <<"Video not found">>],
                          << Request("videos", 0, None, 0, "not_found", None) >>)
            ELSE Returned(VideoDetail(found[1]),
                          << Request("videos", 0, None, 0, "ok", None) >>)

CapReachedNotNone(max_results, collected) ==
    max_results # None /\ Len(collected) >= max_results[1]

\* if max_results and len(videos) >= max_results: break
CapReached(max_results, collected) ==
    Truthy(max_results) /\ Len(collected) >= max_results[1]

PageSizeNoCap(max_results, collected) == PageCap

PageSizeNotRemaining(max_results, collected) ==
    Min(PageCap, IF Truthy(max_results) THEN max_results[1] ELSE PageCap)

\* min(50, max_results - len(videos) if max_results else 50)
PageSize(max_results, collected) ==
    Min(PageCap, IF Truthy(max_results) THEN max_results[1] - Len(collected)
                 ELSE PageCap)

PageTokenDropped(token) == None

\* pageToken=next_page_token
PageToken(token) == token

KeepsInverted(item, published_after) ==
    published_after = None \/ ~(strptime(item.publishedAt) > published_after[1])

\* not (published_after and published_at < published_after)
Keeps(item, published_after) ==
    published_after = None \/ ~(strptime(item.publishedAt) < published_after[1])

RECURSIVE TakeWhileKept(_, _)
TakeWhileKept(items, published_after) ==
    IF items = << >> \/ ~Keeps(Head(items), published_after) THEN << >>
    ELSE << VideoData(Head(items)) >> \o TakeWhileKept(Tail(items), published_after)

\* for item in response['items']: skip or append
CollectPage(items, published_after) ==
    LET kept == SelectSeq(items, LAMBDA it : Keeps(it, published_after))
    IN Map(kept, VideoData)

MorePagesNever(token) == FALSE

\* not (not next_page_token)
MorePages(token) == Truthy(token)

PageErrorKeepsVideos(collected, value) == Append(collected, value)

\* return [{"error": ...}]
PageError(collected, value) == << value >>

----------------------------------------------------------------------------
(* The inputs. *)

Sizes(extra) ==
    (0..(MaxSmall + extra))
    \cup { PageCap + d : d \in (-1)..(MaxOver + extra) }

VideoCounts == Sizes(0)
Orders == {"newest_first", "interleaved"}
ServerPages == (PageCap - MaxShort)..PageCap

ChannelIds == {None, Some(KnownChannel), Some("UCx")}
Usernames == {None, Some(""), Some(KnownUser)}
MaxResultsArgs == {None, Some(DefaultMaxResults)} \cup { Some(n) : n \in Sizes(1) }
PublishedAfterArgs == {None, Some(86400), Some(86401)}
VideoIds == 0..1

\* the defaults of the signatures; video_id has none
GetChannelInfoDefaults == [channel_id |-> None, username |-> None]

GetAllVideosDefaults ==
    [channel_id |-> None, username |-> None,
     max_results |-> Some(DefaultMaxResults), published_after |-> None]

----------------------------------------------------------------------------

Init ==
    /\ \E k \in VideoCounts, order \in Orders : uploads = UploadsOf(k, order)
    /\ serverPage \in ServerPages
    /\ pc = "idle"
    /\ op = "none"
    /\ args = None
    /\ uploads_playlist_id = None
    /\ videos = << >>
    /\ next_page_token = None
    /\ requests = << >>
    /\ apiCalls = 0
    /\ result = None

Provider == UNCHANGED <<uploads, serverPage>>

\* a call that ends at once, having executed `sent`
End(r) ==
    /\ pc' = r.kind
    /\ result' = r.value
    /\ requests' = r.sent
    /\ apiCalls' = apiCalls + Len(r.sent)
    /\ UNCHANGED <<uploads_playlist_id, videos, next_page_token>>

CallGetChannelInfo ==
    /\ pc = "idle"
    /\ \E channel_id \in ChannelIds, username \in Usernames, fault \in Faults :
        /\ MissingIdentifier(channel_id, username) \/ apiCalls < MaxApiCalls
        /\ op' = "get_channel_info"
        /\ args' = [GetChannelInfoDefaults EXCEPT !.channel_id = channel_id,
                                                 !.username = username]
        /\ End(get_channel_info(channel_id, username, fault))
    /\ Provider

CallGetVideoDetails ==
    /\ pc = "idle"
    /\ apiCalls < MaxApiCalls
    /\ \E video_id \in VideoIds, fault \in Faults :
        /\ op' = "get_video_details"
        /\ args' = [video_id |-> Some(video_id)]
        /\ End(get_video_details(uploads, video_id, fault))
    /\ Provider

\* get_all_videos up to the loop: the validation and the channel sub-call
CallGetAllVideos ==
    /\ pc = "idle"
    /\ \E channel_id \in ChannelIds, username \in Usernames,
          max_results \in MaxResultsArgs, published_after \in PublishedAfterArgs,
          fault \in Faults :
        /\ MissingIdentifier(channel_id, username) \/ apiCalls < MaxApiCalls
        /\ op' = "get_all_videos"
        /\ args' = [GetAllVideosDefaults EXCEPT !.channel_id = channel_id,
                                  !.username = username,
                                  !.max_results = max_results,
                                  !.published_after = published_after]
        /\ IF MissingIdentifier(channel_id, username)
           THEN End(Raised(ValueError, << >>))
           ELSE LET channel_info ==
                        IF Truthy(username) /\ ~Truthy(channel_id)
                        THEN get_channel_info(None, username, fault)
                        ELSE get_channel_info(channel_id, None, fault)
                IN IF channel_info.kind = "raised" THEN End(channel_info)
                   ELSE IF "error" \in DOMAIN channel_info.value
                   THEN End(Returned(<< [error |-> channel_info.value.error] >>,
                                     channel_info.sent))
                   ELSE /\ pc' = "paging"
                        /\ uploads_playlist_id' = Some(channel_info.value.uploads_playlist)
                        /\ videos' = << >>
                        /\ next_page_token' = None
                        /\ requests' = channel_info.sent
                        /\ apiCalls' = apiCalls + Len(channel_info.sent)
                        /\ result' = None
    /\ Provider

\* one iteration of the while loop of get_all_videos
PageStep ==
    /\ pc = "paging"
    /\ IF CapReached(args.max_results, videos)
       THEN /\ pc' = "returned"
            /\ result' = videos
            /\ UNCHANGED <<videos, next_page_token, requests, apiCalls>>
       ELSE \E fault \in Faults :
            LET size == PageSize(args.max_results, videos)
                token == PageToken(next_page_token)
            IN IF fault # "ok"
               THEN LET c == CatchHttpError(fault)
                    IN /\ pc' = c.kind
                       /\ result' = IF c.kind = "returned" THEN PageError(videos, c.value)
                                    ELSE c.value
                       /\ requests' = Append(requests,
                              Request("playlistItems", size, token, Len(videos), fault, None))
                       /\ apiCalls' = apiCalls + 1
                       /\ UNCHANGED <<videos, next_page_token>>
               ELSE LET response == PlaylistItemsList(uploads, serverPage,
                                        uploads_playlist_id[1], size, token)
                        collected == videos \o CollectPage(response.items,
                                                           args.published_after)
                    IN /\ videos' = collected
                       /\ next_page_token' = response.nextPageToken
                       /\ requests' = Append(requests,
                              Request("playlistItems", size, token, Len(videos), "ok",
                                      response.nextPageToken))
                       /\ apiCalls' = apiCalls + 1
                       /\ IF MorePages(response.nextPageToken)
                          THEN pc' = "paging" /\ result' = None
                          ELSE pc' = "returned" /\ result' = collected
    /\ UNCHANGED <<op, args, uploads_playlist_id>>
    /\ Provider

\* the caller takes the result; the call's locals are gone
Return ==
    /\ pc \in {"returned", "raised"}
    /\ pc' = "idle"
    /\ op' = "none"
    /\ args' = None
    /\ uploads_playlist_id' = None
    /\ videos' = << >>
    /\ next_page_token' = None
    /\ requests' = << >>
    /\ result' = None
    /\ UNCHANGED apiCalls
    /\ Provider

Next ==
    \/ CallGetChannelInfo
    \/ CallGetVideoDetails
    \/ CallGetAllVideos
    \/ PageStep
    \/ Return

Spec == Init /\ [][Next]_vars

\* the call is synchronous: a loop that can iterate does
FairSpec == Spec /\ WF_vars(PageStep)

----------------------------------------------------------------------------
(* Properties. *)

GAV == op = "get_all_videos"

Ended == pc \in {"returned", "raised"}

\* every request of the call got a normal, non-empty answer
NoFault == \A i \in DOMAIN requests : requests[i].outcome = "ok"

IsErrorValue(v) == "error" \in DOMAIN v

\* the call returned a list of video records
ReturnedVideos ==
    GAV /\ pc = "returned" /\ \A i \in DOMAIN result : ~IsErrorValue(result[i])

\* a positive max_results
Capped == args.max_results # None /\ args.max_results[1] >= 1

AllVideos == Map(uploads, VideoData)

Qualifying(published_after) ==
    SelectSeq(AllVideos, LAMBDA v : strptime(v.publishedAt) >= published_after[1])

PageRequests == SelectSeq(requests, LAMBDA r : r.api = "playlistItems")

\* C1 as stated: for every non-negative max_results = N, get_all_videos returns
\* at most N items.
C1_Original ==
    (GAV /\ pc = "returned" /\ args.max_results # None)
        => Len(result) <= args.max_results[1]

\* C1, amended: for every positive max_results = N, get_all_videos returns at
\* most N items (the single error element included), whatever the channel size
\* and the filter.
C1_AtMostN ==
    (GAV /\ pc = "returned" /\ Capped) => Len(result) <= args.max_results[1]

C1_Witness ==
    /\ ReturnedVideos /\ Capped
    /\ args.published_after # None
    /\ Len(result) = args.max_results[1]
    /\ Len(uploads) > args.max_results[1]
    /\ Len(PageRequests) >= 2

\* C2: with 1 <= N <= K and no filter, the result is exactly the first N items
\* of the uploads collection, in provider order.
C2_FirstN ==
    (/\ GAV /\ pc = "returned" /\ NoFault
     /\ Capped /\ args.max_results[1] <= Len(uploads)
     /\ args.published_after = None)
        => result = SubSeq(AllVideos, 1, args.max_results[1])

C2_Witness ==
    /\ ReturnedVideos /\ NoFault /\ Capped
    /\ args.published_after = None
    /\ args.max_results[1] >= PageCap
    /\ Len(uploads) > args.max_results[1]
    /\ Len(result) = args.max_results[1]
    /\ Len(PageRequests) >= 2

\* C3: with a publishedAfter filter, no collected and no returned video record
\* was published before the instant.
C3_NotBefore ==
    (GAV /\ args.published_after # None) =>
        /\ \A i \in DOMAIN videos :
              strptime(videos[i].publishedAt) >= args.published_after[1]
        /\ ReturnedVideos =>
              \A i \in DOMAIN result :
                  strptime(result[i].publishedAt) >= args.published_after[1]

C3_Witness ==
    /\ ReturnedVideos /\ args.published_after # None
    /\ result # << >>
    /\ Len(result) < Len(uploads)
    /\ \E i \in DOMAIN result : strptime(result[i].publishedAt) = args.published_after[1]
    /\ Len(PageRequests) >= 2

\* C4: with max_results > K and no filter the loop ends, and when the provider
\* answered every request it ends on the page without a cursor, with exactly the
\* K videos.
C4_Case ==
    /\ GAV /\ args.published_after = None
    /\ args.max_results # None /\ args.max_results[1] > Len(uploads)

C4_Terminates ==
    /\ [](C4_Case /\ pc = "paging" => <>Ended)
    /\ []((C4_Case /\ Ended /\ requests # << >> /\ NoFault) =>
            /\ pc = "returned"
            /\ result = AllVideos
            /\ requests[Len(requests)].api = "playlistItems"
            /\ requests[Len(requests)].nextPageToken = None)

C4_Witness ==
    /\ C4_Case /\ pc = "returned" /\ NoFault
    /\ Len(result) = Len(uploads)
    /\ Len(uploads) > PageCap
    /\ Len(PageRequests) >= 2

\* C5: get_channel_info and get_all_videos without a channel id and a username
\* end in the validation error, and the transport's call counter does not move.
C5_NoCallOnMissingId ==
    [][(/\ pc = "idle" /\ pc' # "idle"
        /\ op' \in {"get_channel_info", "get_all_videos"}
        /\ ~Truthy(args'.channel_id) /\ ~Truthy(args'.username))
       => (/\ pc' = "raised" /\ result' = ValueError
           /\ apiCalls' = apiCalls /\ requests' = << >>)]_vars

C5_Witness ==
    /\ pc = "raised" /\ result = ValueError
    /\ GAV
    /\ args.channel_id = None /\ args.username = Some("")
    /\ apiCalls >= 1

\* C6: a request answered with zero matching items for a lookup, or with a
\* structured provider error, is the last request of its call, and the call
\* returns a tagged error value with a non-empty message (for get_all_videos
\* inside the returned list); no exception escapes.
C6_TaggedError ==
    \A i \in DOMAIN requests :
        requests[i].outcome \in {"not_found", "structured"} =>
            /\ i = Len(requests)
            /\ pc = "returned"
            /\ LET e == IF GAV THEN result[1] ELSE result
               IN IsErrorValue(e) /\ e.error # << >>

C6_Witness ==
    /\ op = "get_video_details" /\ pc = "returned"
    /\ requests[1].outcome = "structured"
    /\ IsErrorValue(result)

\* C7: with a positive max_results = N every page request asks for
\* min(50, N - collected) items, between 1 and 50; the first carries no cursor
\* and a later one the cursor of the page before it; none is issued with N
\* items collected or after a page without a cursor.
C7_PageRequests ==
    (GAV /\ Capped) =>
        \A i \in DOMAIN requests :
            requests[i].api = "playlistItems" =>
                /\ requests[i].collected < args.max_results[1]
                /\ requests[i].maxResults =
                       Min(PageCap, args.max_results[1] - requests[i].collected)
                /\ requests[i].maxResults \in 1..PageCap
                /\ requests[i - 1].api = "channels"
                       => requests[i].pageToken = None
                /\ requests[i - 1].api = "playlistItems"
                       => /\ requests[i - 1].nextPageToken # None
                          /\ requests[i].pageToken = requests[i - 1].nextPageToken

C7_Witness ==
    /\ GAV /\ Capped /\ pc = "returned" /\ NoFault
    /\ args.max_results[1] > PageCap
    /\ Len(PageRequests) >= 2
    /\ PageRequests[1].maxResults = PageCap
    /\ PageRequests[2].maxResults \in 2..(PageCap - 1)
    /\ PageRequests[2].pageToken # None
    /\ PageRequests[2].collected < PageRequests[2].pageToken[1]

\* C8: with a falsy max_results (0 or None) and no filter every page request
\* asks for 50 items and the call returns all K videos.
C8_Unbounded ==
    (/\ GAV /\ pc = "returned" /\ NoFault
     /\ ~Truthy(args.max_results)
     /\ args.published_after = None)
        => /\ result = AllVideos
           /\ \A i \in DOMAIN PageRequests : PageRequests[i].maxResults = PageCap

C8_Witness ==
    /\ ReturnedVideos /\ NoFault
    /\ args.max_results = Some(0)
    /\ args.published_after = None
    /\ Len(result) > PageCap
    /\ Len(PageRequests) >= 2

\* C9: with a filter and a positive max_results = N the result is exactly the
\* first min(N, M) qualifying items, in provider order.
C9_FirstQualifying ==
    (/\ GAV /\ pc = "returned" /\ NoFault
     /\ Capped /\ args.published_after # None)
        => result = Take(Qualifying(args.published_after), args.max_results[1])

C9_Witness ==
    /\ ReturnedVideos /\ NoFault /\ Capped
    /\ args.published_after # None
    /\ Len(result) = args.max_results[1]
    /\ Len(result) >= 2
    /\ Len(PageRequests) >= 3
    /\ Len(Qualifying(args.published_after)) > args.max_results[1]
    /\ result[Len(result)].id > Len(result) + 1

\* C10: a returned list is all video records or one error element; after a
\* failed channel sub-call no page is requested; a provider error on a page
\* leaves only the error element.
C10_NoMix ==
    (GAV /\ pc = "returned") =>
        /\ \/ \A i \in DOMAIN result : ~IsErrorValue(result[i])
           \/ Len(result) = 1 /\ IsErrorValue(result[1])
        /\ requests[1].outcome # "ok" => Len(requests) = 1
        /\ requests[Len(requests)].outcome = "structured"
               => Len(result) = 1 /\ IsErrorValue(result[1])

C10_Witness ==
    /\ GAV /\ pc = "returned"
    /\ videos # << >>
    /\ Len(PageRequests) >= 2
    /\ requests[Len(requests)].outcome = "structured"
    /\ Len(result) = 1 /\ IsErrorValue(result[1])

====
